---- MODULE Spec2Model ----
(***************************************************************************)
(* A model of the SQLite persistence layer (data/database_manager.py), the *)
(* cleanup (data/database_cleanup.py), the import scripts, the cover-      *)
(* letter scripts and the HTML job-listing parser                          *)
(* (scripts/upwork_data_parser.py) of the WorkFlow repository.             *)
(*                                                                         *)
(* SQLite facts the model relies on (none of the code executes             *)
(* PRAGMA foreign_keys = ON, so the declared FOREIGN KEY clauses are not   *)
(* enforced; INSERT OR IGNORE skips a row that violates UNIQUE or NOT NULL *)
(* but still consumes an AUTOINCREMENT id; LIMIT with a negative value     *)
(* means no limit; the order among rows with equal ORDER BY keys is fixed  *)
(* by the build, not by SQL).                                              *)
(***************************************************************************)
EXTENDS Integers, Sequences, FiniteSets, TLC

(* ------------------------------ bounds --------------------------------- *)
\* Each specification caps the number of rows ever inserted plus the clock.
CleanupMaxOps == 5
MaxKeep == 2
ImportMaxOps == 4
CoverMaxOps == 7
MaxBatch == 2
MaxElems == 3
MaxLinks == 2
MaxSeries == 4
MaxSessions == 2
SchedMaxOps == 3
MaxHours == 2

NULL == "NULL"

VARIABLES
    scraped_data,     \* rows of table scraped_data: [id, scrape_type, scrape_timestamp]
    jobs,             \* rows of table jobs: [id, scrape_id, job_uid, parsed_timestamp]
    proposals,        \* rows of table proposals: [id, scrape_id]
    cover_letters,    \* rows of table cover_letters: [id, job_id]
    sqlite_sequence,  \* last AUTOINCREMENT id handed out, per table
    now,              \* CURRENT_TIMESTAMP
    tie_order,        \* the build's order among rows with equal ORDER BY keys
    cleaner,          \* the DatabaseCleaner running run_cleanup and its position
    ret,              \* what the step just taken returned to its caller
    soup,             \* the parsed HTML document: its elements in document order
    run_series,       \* history: the unbroken series of successful
                      \* smart_generate_cover_letter runs in progress
    chat,             \* chat_data.db (sessions, the latest one), the file
                      \* temp_ai_suggestions.json and, as history, the sessions
                      \* detect_and_update_phase stored a phase for
    scheduler         \* cleanup_config.json and the position of the
                      \* ScheduledCleaner running run_scheduled_cleanup

dbVars == <<scraped_data, jobs, proposals, cover_letters, sqlite_sequence>>
vars == <<scraped_data, jobs, proposals, cover_letters, sqlite_sequence, now,
          tie_order, cleaner, ret, soup, run_series, chat, scheduler>>

NoRet == [op |-> "none"]

\* No series of runs in progress: a series starts with a successful run and is
\* broken by every other step.
\* temp_ai_suggestions.json does not exist.
NoFile == [session_id |-> "", phase |-> NULL, confidence |-> NULL]

NoSeries == [uncovered_at_start |-> 0, cover_letters_at_start |-> 0, runs |-> 0]

Min(a, b) == IF a < b THEN a ELSE b

(* ------------------------- ORDER BY ... DESC LIMIT ---------------------- *)
\* rows: a set of [id, ts].  q comes before x in ORDER BY ts DESC.
Precedes(q, x) ==
    \/ q.ts > x.ts
    \/ /\ q.ts = x.ts
       /\ IF tie_order = "rowid_asc" THEN q.id < x.id ELSE q.id > x.id

\* The ids of the first k rows of rows ORDER BY ts DESC (every row when k < 0).
OrderByDescLimit(rows, k) ==
    IF k < 0
    THEN {r.id : r \in rows}
    ELSE {r.id : r \in {x \in rows : Cardinality({q \in rows : Precedes(q, x)}) < k}}

(* --------------------------- DatabaseCleaner ---------------------------- *)
Running == {"cleanup_jobs", "cleanup_proposals", "cleanup_scraped_data",
            "cleanup_orphaned_cover_letters", "finish"}

IdleCleaner ==
    [pc |-> "idle", keep_scrapes |-> 0, keep_scrape_ids |-> {}, result |-> FALSE,
     at_start |-> {}]

\* The scripts run one at a time (one workflow node after the other): no other
\* client reads or writes between two steps of run_cleanup.  The cleaner object
\* is gone once another script runs.
NoCleanupRunning == cleaner.pc \notin Running

\* ORDER BY scrape_timestamp ASC instead of DESC: the oldest scrapes are kept.
get_scrapes_to_keep_asc(keep_scrapes) ==
    LET rows == {[id |-> r.id, ts |-> r.scrape_timestamp] : r \in scraped_data} IN
      IF keep_scrapes < 0
      THEN {r.id : r \in rows}
      ELSE {r.id : r \in {x \in rows :
                Cardinality({q \in rows : Precedes(x, q)}) < keep_scrapes}}

get_scrapes_to_keep(keep_scrapes) ==
    OrderByDescLimit({[id |-> r.id, ts |-> r.scrape_timestamp] : r \in scraped_data},
                     keep_scrapes)

\* DatabaseCleaner(keep_scrapes = k).run_cleanup() up to its first write.
RunCleanupStart(k) ==
    /\ cleaner.pc \in {"idle", "done"}
    /\ LET keep_scrape_ids == get_scrapes_to_keep(k) IN
         cleaner' = [pc |-> IF keep_scrape_ids = {} THEN "done" ELSE "cleanup_jobs",
                     keep_scrapes |-> k,
                     keep_scrape_ids |-> keep_scrape_ids,
                     result |-> FALSE,
                     at_start |-> scraped_data]
    /\ ret' = NoRet
    /\ UNCHANGED <<dbVars, now, tie_order, soup>>
    /\ run_series' = NoSeries
    /\ UNCHANGED chat
    /\ UNCHANGED scheduler

\* WHERE id NOT IN (...) instead of WHERE scrape_id NOT IN (...).
cleanup_jobs_by_id ==
    /\ cleaner.pc = "cleanup_jobs"
    /\ jobs' = {j \in jobs : j.id \in cleaner.keep_scrape_ids}
    /\ cleaner' = [cleaner EXCEPT !.pc = "cleanup_proposals"]
    /\ ret' = NoRet
    /\ UNCHANGED <<scraped_data, proposals, cover_letters, sqlite_sequence, now, tie_order, soup>>
    /\ run_series' = NoSeries
    /\ UNCHANGED chat
    /\ UNCHANGED scheduler

cleanup_jobs ==
    /\ cleaner.pc = "cleanup_jobs"
    /\ jobs' = {j \in jobs : j.scrape_id \in cleaner.keep_scrape_ids}
    /\ cleaner' = [cleaner EXCEPT !.pc = "cleanup_proposals"]
    /\ ret' = NoRet
    /\ UNCHANGED <<scraped_data, proposals, cover_letters, sqlite_sequence, now, tie_order, soup>>
    /\ run_series' = NoSeries
    /\ UNCHANGED chat
    /\ UNCHANGED scheduler

cleanup_proposals ==
    /\ cleaner.pc = "cleanup_proposals"
    /\ proposals' = {p \in proposals : p.scrape_id \in cleaner.keep_scrape_ids}
    /\ cleaner' = [cleaner EXCEPT !.pc = "cleanup_scraped_data"]
    /\ ret' = NoRet
    /\ UNCHANGED <<scraped_data, jobs, cover_letters, sqlite_sequence, now, tie_order, soup>>
    /\ run_series' = NoSeries
    /\ UNCHANGED chat
    /\ UNCHANGED scheduler

cleanup_scraped_data ==
    /\ cleaner.pc = "cleanup_scraped_data"
    /\ scraped_data' = {r \in scraped_data : r.id \in cleaner.keep_scrape_ids}
    /\ cleaner' = [cleaner EXCEPT !.pc = "cleanup_orphaned_cover_letters"]
    /\ ret' = NoRet
    /\ UNCHANGED <<jobs, proposals, cover_letters, sqlite_sequence, now, tie_order, soup>>
    /\ run_series' = NoSeries
    /\ UNCHANGED chat
    /\ UNCHANGED scheduler

cleanup_orphaned_cover_letters ==
    /\ cleaner.pc = "cleanup_orphaned_cover_letters"
    /\ cover_letters' = {c \in cover_letters : c.job_id \in {j.id : j \in jobs}}
    /\ cleaner' = [cleaner EXCEPT !.pc = "finish"]
    /\ ret' = NoRet
    /\ UNCHANGED <<scraped_data, jobs, proposals, sqlite_sequence, now, tie_order, soup>>
    /\ run_series' = NoSeries
    /\ UNCHANGED chat
    /\ UNCHANGED scheduler

\* cleanup_old_analytics, cleanup_unused_keywords, VACUUM, the statistics: no
\* table of the model changes; run_cleanup returns True.
RunCleanupFinish ==
    /\ cleaner.pc = "finish"
    /\ cleaner' = [cleaner EXCEPT !.pc = "done", !.result = TRUE]
    /\ ret' = NoRet
    /\ UNCHANGED <<dbVars, now, tie_order, soup>>
    /\ run_series' = NoSeries
    /\ UNCHANGED chat
    /\ UNCHANGED scheduler

\* An exception in a step (sqlite3 error): run_cleanup returns False where it is.
RunCleanupRaise ==
    /\ cleaner.pc \in Running
    /\ cleaner' = [cleaner EXCEPT !.pc = "done", !.result = FALSE]
    /\ ret' = NoRet
    /\ UNCHANGED <<dbVars, now, tie_order, soup>>
    /\ run_series' = NoSeries
    /\ UNCHANGED chat
    /\ UNCHANGED scheduler

(* ---------------------------- UpworkDatabase ---------------------------- *)
Tick ==
    /\ now' = now + 1
    /\ NoCleanupRunning
    /\ cleaner' = IdleCleaner
    /\ ret' = NoRet
    /\ UNCHANGED <<dbVars, tie_order, soup>>
    /\ run_series' = NoSeries
    /\ UNCHANGED chat
    /\ UNCHANGED scheduler

add_scraped_data(scrape_type) ==
    /\ LET scrape_id == sqlite_sequence.scraped_data + 1 IN
         /\ scraped_data' = scraped_data \cup
              {[id |-> scrape_id, scrape_type |-> scrape_type, scrape_timestamp |-> now]}
         /\ sqlite_sequence' = [sqlite_sequence EXCEPT !.scraped_data = scrape_id]
    /\ NoCleanupRunning
    /\ cleaner' = IdleCleaner
    /\ ret' = NoRet
    /\ UNCHANGED <<jobs, proposals, cover_letters, now, tie_order, soup>>
    /\ run_series' = NoSeries
    /\ UNCHANGED chat
    /\ UNCHANGED scheduler

\* INSERT OR REPLACE instead of INSERT OR IGNORE: a row with the same job_uid is
\* deleted and the new row stored under a new id.
InsertOrReplaceJob(js, sq, scrape_id, job_data, t) ==
    LET id == sq + 1
        conflicting == {j \in js : job_data.job_uid # NULL /\ j.job_uid = job_data.job_uid}
    IN IF job_data.title = NULL
       THEN [jobs |-> js, seq |-> id, lastrowid |-> 0]
       ELSE [jobs |-> (js \ conflicting) \cup
                        {[id |-> id, scrape_id |-> scrape_id,
                          job_uid |-> job_data.job_uid, parsed_timestamp |-> t]},
             seq |-> id,
             lastrowid |-> id]

\* INSERT OR IGNORE INTO jobs: the table, the sequence and cursor.lastrowid after it.
\* job_title is NOT NULL and job_uid is UNIQUE (NULLs do not conflict); a row that
\* violates either is skipped, its id is consumed, and a fresh connection's
\* lastrowid stays 0.
InsertOrIgnoreJob(js, sq, scrape_id, job_data, t) ==
    LET id == sq + 1
        ignored == \/ job_data.title = NULL
                   \/ /\ job_data.job_uid # NULL
                      /\ \E j \in js : j.job_uid = job_data.job_uid
    IN [jobs |-> IF ignored THEN js
                 ELSE js \cup {[id |-> id, scrape_id |-> scrape_id,
                                job_uid |-> job_data.job_uid, parsed_timestamp |-> t]},
        seq |-> id,
        lastrowid |-> IF ignored THEN 0 ELSE id]

add_job(scrape_id, job_data) ==
    /\ job_data.dict
    /\ LET r == InsertOrIgnoreJob(jobs, sqlite_sequence.jobs, scrape_id, job_data, now) IN
         /\ jobs' = r.jobs
         /\ sqlite_sequence' = [sqlite_sequence EXCEPT !.jobs = r.seq]
         /\ ret' = [op |-> "add_job", job_uid |-> job_data.job_uid, lastrowid |-> r.lastrowid]
    /\ NoCleanupRunning
    /\ cleaner' = IdleCleaner
    /\ UNCHANGED <<scraped_data, proposals, cover_letters, now, tie_order, soup>>
    /\ run_series' = NoSeries
    /\ UNCHANGED chat
    /\ UNCHANGED scheduler

add_proposal(scrape_id) ==
    /\ LET proposal_id == sqlite_sequence.proposals + 1 IN
         /\ proposals' = proposals \cup {[id |-> proposal_id, scrape_id |-> scrape_id]}
         /\ sqlite_sequence' = [sqlite_sequence EXCEPT !.proposals = proposal_id]
    /\ NoCleanupRunning
    /\ cleaner' = IdleCleaner
    /\ ret' = NoRet
    /\ UNCHANGED <<scraped_data, jobs, cover_letters, now, tie_order, soup>>
    /\ run_series' = NoSeries
    /\ UNCHANGED chat
    /\ UNCHANGED scheduler

add_cover_letter(job_id) ==
    /\ LET cover_letter_id == sqlite_sequence.cover_letters + 1 IN
         /\ cover_letters' = cover_letters \cup {[id |-> cover_letter_id, job_id |-> job_id]}
         /\ sqlite_sequence' = [sqlite_sequence EXCEPT !.cover_letters = cover_letter_id]
    /\ NoCleanupRunning
    /\ cleaner' = IdleCleaner
    /\ ret' = NoRet
    /\ UNCHANGED <<scraped_data, jobs, proposals, now, tie_order, soup>>
    /\ run_series' = NoSeries
    /\ UNCHANGED chat
    /\ UNCHANGED scheduler

delete_cover_letter(cover_letter_id) ==
    /\ cover_letters' = {c \in cover_letters : c.id # cover_letter_id}
    /\ NoCleanupRunning
    /\ cleaner' = IdleCleaner
    /\ ret' = NoRet
    /\ UNCHANGED <<scraped_data, jobs, proposals, sqlite_sequence, now, tie_order, soup>>
    /\ run_series' = NoSeries
    /\ UNCHANGED chat
    /\ UNCHANGED scheduler

(* ---------------------------- import scripts ---------------------------- *)
\* SELECT id FROM scraped_data WHERE scrape_type = 'browser'
\* ORDER BY scrape_timestamp DESC LIMIT 1: a set of at most one id.
latest_browser_scrape ==
    OrderByDescLimit({[id |-> r.id, ts |-> r.scrape_timestamp] :
                        r \in {x \in scraped_data : x.scrape_type = "browser"}}, 1)

\* for job in jobs: try: db.add_job(scrape_id, job); jobs_added += 1
\*                  except Exception: continue
\* An entry that is no dict makes add_job raise before it touches the database.
RECURSIVE AddJobsLoop(_, _, _, _, _)
AddJobsLoop(js, sq, scrape_id, job_list, t) ==
    IF job_list = <<>>
    THEN [jobs |-> js, seq |-> sq, jobs_added |-> 0]
    ELSE LET job == Head(job_list) IN
         IF ~job.dict
         THEN AddJobsLoop(js, sq, scrape_id, Tail(job_list), t)
         ELSE LET a == InsertOrIgnoreJob(js, sq, scrape_id, job, t)
                  r == AddJobsLoop(a.jobs, a.seq, scrape_id, Tail(job_list), t)
              IN [r EXCEPT !.jobs_added = @ + 1]

\* for job in data['jobs']: self.add_job(scrape_id, job); jobs_added += 1
\* No try: the first entry that makes add_job raise ends the loop and the call.
RECURSIVE AddJobsLoopNoTry(_, _, _, _, _)
AddJobsLoopNoTry(js, sq, scrape_id, job_list, t) ==
    IF job_list = <<>>
    THEN [jobs |-> js, seq |-> sq, jobs_added |-> 0, raised |-> FALSE]
    ELSE LET job == Head(job_list) IN
         IF ~job.dict
         THEN [jobs |-> js, seq |-> sq, jobs_added |-> 0, raised |-> TRUE]
         ELSE LET a == InsertOrIgnoreJob(js, sq, scrape_id, job, t)
                  r == AddJobsLoopNoTry(a.jobs, a.seq, scrape_id, Tail(job_list), t)
              IN [r EXCEPT !.jobs_added = @ + 1]

\* parse_from_database(); parsed_jobs is what parse_html_file extracted from the
\* latest browser scrape's raw_content.
parse_from_database(parsed_jobs) ==
    /\ NoCleanupRunning
    /\ cleaner' = IdleCleaner
    /\ IF latest_browser_scrape = {}
       THEN /\ ret' = [op |-> "parse_from_database", success |-> FALSE]
            /\ UNCHANGED <<jobs, sqlite_sequence>>
       ELSE LET scrape_id == CHOOSE i \in latest_browser_scrape : TRUE IN
            IF parsed_jobs = <<>>
            THEN /\ ret' = [op |-> "parse_from_database", success |-> TRUE,
                            scrape_id |-> scrape_id, jobs_parsed |-> 0]
                 /\ UNCHANGED <<jobs, sqlite_sequence>>
            ELSE LET r == AddJobsLoop(jobs, sqlite_sequence.jobs, scrape_id, parsed_jobs, now) IN
                 /\ jobs' = r.jobs
                 /\ sqlite_sequence' = [sqlite_sequence EXCEPT !.jobs = r.seq]
                 /\ ret' = [op |-> "parse_from_database", success |-> TRUE,
                            scrape_id |-> scrape_id, jobs_parsed |-> Len(parsed_jobs),
                            jobs_added |-> r.jobs_added]
    /\ UNCHANGED <<scraped_data, proposals, cover_letters, now, tie_order, soup>>
    /\ run_series' = NoSeries
    /\ UNCHANGED chat
    /\ UNCHANGED scheduler

\* import_jobs_to_db(); file_jobs is data.get('jobs', []) of temp_parsed_jobs.json.
import_jobs_to_db(file_exists, file_jobs) ==
    /\ NoCleanupRunning
    /\ cleaner' = IdleCleaner
    /\ IF latest_browser_scrape = {} \/ ~file_exists
       THEN /\ ret' = [op |-> "import_jobs_to_db", success |-> FALSE]
            /\ UNCHANGED <<jobs, sqlite_sequence>>
       ELSE LET scrape_id == CHOOSE i \in latest_browser_scrape : TRUE
                r == AddJobsLoop(jobs, sqlite_sequence.jobs, scrape_id, file_jobs, now)
            IN /\ jobs' = r.jobs
               /\ sqlite_sequence' = [sqlite_sequence EXCEPT !.jobs = r.seq]
               /\ ret' = [op |-> "import_jobs_to_db", success |-> TRUE,
                          scrape_id |-> scrape_id, jobs_imported |-> r.jobs_added,
                          jobs_total |-> Len(file_jobs)]
    /\ UNCHANGED <<scraped_data, proposals, cover_letters, now, tie_order, soup>>
    /\ run_series' = NoSeries
    /\ UNCHANGED chat
    /\ UNCHANGED scheduler

\* UpworkDatabase.import_from_json_file(file_path, scrape_type) for an existing
\* file; data_jobs is data['jobs'] (empty when the key is absent).
import_from_json_file(scrape_type, data_jobs) ==
    /\ NoCleanupRunning
    /\ cleaner' = IdleCleaner
    /\ LET scrape_id == sqlite_sequence.scraped_data + 1
           r == AddJobsLoopNoTry(jobs, sqlite_sequence.jobs, scrape_id, data_jobs, now)
       IN /\ scraped_data' = scraped_data \cup
               {[id |-> scrape_id, scrape_type |-> scrape_type, scrape_timestamp |-> now]}
          /\ jobs' = r.jobs
          /\ sqlite_sequence' = [sqlite_sequence EXCEPT !.scraped_data = scrape_id,
                                                        !.jobs = r.seq]
          /\ ret' = IF r.raised
                    THEN [op |-> "import_from_json_file", raised |-> TRUE]
                    ELSE [op |-> "import_from_json_file", raised |-> FALSE,
                          scrape_id |-> scrape_id, jobs_added |-> r.jobs_added]
    /\ UNCHANGED <<proposals, cover_letters, now, tie_order, soup>>
    /\ run_series' = NoSeries
    /\ UNCHANGED chat
    /\ UNCHANGED scheduler

(* ------------------------- cover-letter scripts ------------------------- *)
\* scripts/get_latest_job_without_cover_letter.py without its WHERE clause: the
\* latest job, covered or not.
ScriptPendingJobNoWhere ==
    OrderByDescLimit({[id |-> j.id, ts |-> j.parsed_timestamp] : j \in jobs}, 1)

\* scripts/get_latest_job_without_cover_letter.py:
\* SELECT j.id, ... FROM jobs j LEFT JOIN cover_letters cl ON j.id = cl.job_id
\* WHERE cl.job_id IS NULL ORDER BY j.parsed_timestamp DESC LIMIT 1
\* as the set of the ids fetchone() can return (empty: no row).
ScriptPendingJob ==
    LET joined_null == {j \in jobs : ~ \E cl \in cover_letters : j.id = cl.job_id} IN
      OrderByDescLimit({[id |-> j.id, ts |-> j.parsed_timestamp] : j \in joined_null}, 1)

get_latest_job_without_cover_letter ==
    /\ NoCleanupRunning
    /\ cleaner' = IdleCleaner
    /\ ret' = IF ScriptPendingJob = {}
              THEN [op |-> "get_latest_job_without_cover_letter", success |-> FALSE,
                    message |-> "No pending jobs found"]
              ELSE [op |-> "get_latest_job_without_cover_letter", success |-> TRUE,
                    job_id |-> CHOOSE i \in ScriptPendingJob : TRUE]
    /\ UNCHANGED <<dbVars, now, tie_order, soup>>
    /\ run_series' = NoSeries
    /\ UNCHANGED chat
    /\ UNCHANGED scheduler

\* SELECT COUNT(*) FROM jobs: every job counts, covered or not.
check_if_cover_letter_needed_all_jobs == Cardinality(jobs)

\* SmartCoverLetterGenerator.check_if_cover_letter_needed: the count of
\* SELECT COUNT(*) FROM jobs j LEFT JOIN cover_letters cl ON j.id = cl.job_id
\* WHERE cl.job_id IS NULL
check_if_cover_letter_needed ==
    Cardinality({j \in jobs : ~ \E cl \in cover_letters : j.id = cl.job_id})

\* The method's SELECT with ORDER BY j.parsed_timestamp ASC: the oldest job
\* without a cover letter.
SmartPendingJobOldest ==
    LET joined_null == {j \in jobs : ~ \E cl \in cover_letters : j.id = cl.job_id}
        oldest == {j \in joined_null :
                      \A o \in joined_null : Precedes([id |-> o.id, ts |-> o.parsed_timestamp],
                                                       [id |-> j.id, ts |-> j.parsed_timestamp])
                                              \/ o = j}
    IN {j.id : j \in oldest}

\* SmartCoverLetterGenerator.get_latest_job_without_cover_letter: the same
\* SELECT as the script's, with other columns; empty stands for None.
SmartPendingJob ==
    LET joined_null == {j \in jobs : ~ \E cl \in cover_letters : j.id = cl.job_id} IN
      OrderByDescLimit({[id |-> j.id, ts |-> j.parsed_timestamp] : j \in joined_null}, 1)

\* smart_generate_cover_letter(); load_ok: load_model_temporarily() succeeds,
\* generated: generate_cover_letter() returns a non-empty text.
smart_generate_cover_letter(load_ok, generated) ==
    /\ NoCleanupRunning
    /\ cleaner' = IdleCleaner
    /\ LET needed == check_if_cover_letter_needed > 0
           R(value, load_called, saved_for) ==
               [op |-> "smart_generate_cover_letter", value |-> value,
                load_called |-> load_called, saved_for |-> saved_for]
       IN
       IF ~needed
       THEN ret' = R(TRUE, FALSE, 0) /\ UNCHANGED <<cover_letters, sqlite_sequence>>
       ELSE IF SmartPendingJob = {}
       THEN ret' = R(FALSE, FALSE, 0) /\ UNCHANGED <<cover_letters, sqlite_sequence>>
       ELSE IF ~load_ok \/ ~generated
       THEN ret' = R(FALSE, TRUE, 0) /\ UNCHANGED <<cover_letters, sqlite_sequence>>
       ELSE LET job_id == CHOOSE i \in SmartPendingJob : TRUE
                cover_letter_id == sqlite_sequence.cover_letters + 1
            IN /\ cover_letters' = cover_letters \cup
                     {[id |-> cover_letter_id, job_id |-> job_id]}
               /\ sqlite_sequence' = [sqlite_sequence EXCEPT !.cover_letters = cover_letter_id]
               /\ ret' = R(TRUE, TRUE, job_id)
    /\ run_series' =
         IF ~ret'.value THEN NoSeries
         ELSE IF run_series = NoSeries
         THEN [uncovered_at_start |-> check_if_cover_letter_needed,
               cover_letters_at_start |-> Cardinality(cover_letters),
               runs |-> 1]
         ELSE [run_series EXCEPT !.runs = @ + 1]
    /\ UNCHANGED <<scraped_data, jobs, proposals, now, tie_order, soup, chat, scheduler>>

(* --------------------------- upwork_data_parser ------------------------- *)
\* An element of the document is [uid, tag, data_test, data_qa, links]: its
\* data-ev-job-uid, tag name, data-test and data-qa attributes and the <a>
\* elements below it in document order. A link is [h2, data_test, data_qa,
\* text]: h2 tells whether it has an <h2> ancestor ("none", "h2") or an
\* <h2 class="job-tile-title"> ancestor ("h2.job-tile-title"); text is its
\* text as a sequence of characters.

\* 'article[data-test="JobTile"]'
JobSel1(e) == e.tag = "article" /\ e.data_test = "JobTile"
\* 'section[data-qa="job-tile"]'
JobSel2(e) == e.tag = "section" /\ e.data_qa = "job-tile"
\* '[data-qa="job-tile"]'
JobSel3(e) == e.data_qa = "job-tile"

\* 'h2.job-tile-title a[data-test="job-tile-title-link"]'
TitleSel1(a) == a.h2 = "h2.job-tile-title" /\ a.data_test = "job-tile-title-link"
\* 'h2 a[data-qa="job-title"]'
TitleSel2(a) == a.h2 # "none" /\ a.data_qa = "job-title"
\* 'h2 a'
TitleSel3(a) == a.h2 # "none"
\* 'a[data-test="job-tile-title-link"]'
TitleSel4(a) == a.data_test = "job-tile-title-link"
\* 'a[data-qa="job-title"]'
TitleSel5(a) == a.data_qa = "job-title"

\* the k-th selector the title cascade tries
TitleSelector(k, a) ==
    CASE k = 1 -> TitleSel1(a)
      [] k = 2 -> TitleSel2(a)
      [] k = 3 -> TitleSel3(a)
      [] k = 4 -> TitleSel4(a)
      [] k = 5 -> TitleSel5(a)

\* Tag.select_one of the k-th title selector over the links of an element:
\* the position of the first match in document order, 0 for None.
select_one(links, k) ==
    IF \E i \in 1 .. Len(links) : TitleSelector(k, links[i])
    THEN CHOOSE i \in 1 .. Len(links) :
             /\ TitleSelector(k, links[i])
             /\ \A j \in 1 .. i - 1 : ~TitleSelector(k, links[j])
    ELSE 0

RECURSIVE lstrip(_)
lstrip(text) ==
    IF text # <<>> /\ Head(text) = " " THEN lstrip(Tail(text)) ELSE text

RECURSIVE rstrip(_)
rstrip(text) ==
    IF text # <<>> /\ text[Len(text)] = " "
    THEN rstrip(SubSeq(text, 1, Len(text) - 1))
    ELSE text

\* get_text(strip=True) of a link holding one text node
get_text_strip(text) == rstrip(lstrip(text))

\* soup.select('[data-qa="job-tile"], article[data-test="JobTile"]'): every
\* element any of the selectors matches.
select_job_elements_merged(document) ==
    SelectSeq(document, LAMBDA e : JobSel1(e) \/ JobSel2(e) \/ JobSel3(e))

\* parse_upwork_jobs, the job_elements it loops over
select_job_elements(document) ==
    LET by1 == SelectSeq(document, JobSel1)
        by2 == SelectSeq(document, JobSel2)
        by3 == SelectSeq(document, JobSel3)
    IN IF by1 # <<>> THEN by1 ELSE IF by2 # <<>> THEN by2 ELSE by3

\* parse_upwork_jobs, the title_link of one job element (0: None)
select_title_link(job_element) ==
    LET l == job_element.links
        t1 == select_one(l, 1)
        t2 == select_one(l, 2)
        t3 == select_one(l, 3)
        t4 == select_one(l, 4)
        t5 == select_one(l, 5)
    IN IF t1 # 0 THEN t1
       ELSE IF t2 # 0 THEN t2
       ELSE IF t3 # 0 THEN t3
       ELSE IF t4 # 0 THEN t4
       ELSE t5

\* the job_data dictionary built for one job element (job_uid and title keys)
extract_job_data(job_element) ==
    LET title_link == select_title_link(job_element) IN
      IF title_link # 0
      THEN [job_uid |-> job_element.uid,
            title |-> get_text_strip(job_element.links[title_link].text)]
      ELSE [job_uid |-> job_element.uid]

\* "if 'title' in job_data": a title key, whatever its value
has_title_key(job_data) == "title" \in DOMAIN job_data

\* "if job_data.get('title')": a title key with a non-empty string
has_title(job_data) == "title" \in DOMAIN job_data /\ job_data.title # <<>>

\* parse_upwork_jobs(soup): the returned jobs, with the locals job_elements
\* and (per job element) title_link
parse_upwork_jobs(document) ==
    LET job_elements == select_job_elements(document)
        job_datas == [i \in 1 .. Len(job_elements) |-> extract_job_data(job_elements[i])]
    IN [job_elements |-> job_elements,
        title_links |-> [i \in 1 .. Len(job_elements) |-> select_title_link(job_elements[i])],
        jobs |-> SelectSeq(job_datas, has_title)]

\* extract_metadata(soup), its total_jobs_found entry
extract_metadata(document) == [total_jobs_found |-> 0]

\* parse_html_file with total_jobs_found counting the job elements found
parse_html_file_counting_elements(document, failure) ==
    IF failure # "none"
    THEN [error |-> failure, source_file |-> "basename",
          parsing_stats |-> [parsing_successful |-> FALSE]]
    ELSE LET parsed == parse_upwork_jobs(document) IN
         [metadata |-> [extract_metadata(document) EXCEPT
                            !.total_jobs_found = Len(parsed.job_elements)],
          jobs |-> parsed.jobs,
          parsing_stats |-> [jobs_extracted |-> Len(parsed.jobs),
                             parsing_successful |-> Len(parsed.jobs) > 0]]

\* parse_html_file(file_path), the dictionary it returns; failure names the
\* statement of the try block that raises ("none": no statement does).
parse_html_file(document, failure) ==
    IF failure # "none"
    THEN [error |-> failure, source_file |-> "basename",
          parsing_stats |-> [parsing_successful |-> FALSE]]
    ELSE LET parsed_jobs == parse_upwork_jobs(document).jobs IN
         [metadata |-> [extract_metadata(document) EXCEPT
                            !.total_jobs_found = Len(parsed_jobs)],
          jobs |-> parsed_jobs,
          parsing_stats |-> [jobs_extracted |-> Len(parsed_jobs),
                             parsing_successful |-> Len(parsed_jobs) > 0]]

call_parse_upwork_jobs ==
    /\ ret' = [op |-> "parse_upwork_jobs"] @@ parse_upwork_jobs(soup)
    /\ UNCHANGED <<dbVars, now, tie_order, cleaner, soup>>
    /\ run_series' = NoSeries
    /\ UNCHANGED chat
    /\ UNCHANGED scheduler

\* The except clause catches every Exception of the try block and its own
\* statements do not raise for a str or Path file_path.
call_parse_html_file(failure) ==
    /\ ret' = [op |-> "parse_html_file", raised |-> FALSE,
               result |-> parse_html_file(soup, failure)]
    /\ UNCHANGED <<dbVars, now, tie_order, cleaner, soup>>
    /\ run_series' = NoSeries
    /\ UNCHANGED chat
    /\ UNCHANGED scheduler

(* ------------------------------ ChatDatabase ---------------------------- *)
\* chat.sessions[session_id] is [phase, phase_confidence, messages]: the row of
\* the session and the number of its stored messages. Session ids are the
\* strings of SessionIds; "" stands for an empty or missing id.
SessionIds == {"s1", "s2", "s3"}

\* ChatDatabase.get_latest_session(): the id of the latest session, "" for None
get_latest_session == chat.latest

\* ChatDatabase.get_session_with_phase(session_id): <<row>>, <<>> for None
get_session_with_phase(session_id) ==
    IF session_id \in DOMAIN chat.sessions THEN <<chat.sessions[session_id]>> ELSE <<>>

\* ChatDatabase.get_recent_messages(session_id, limit): how many it returns
get_recent_messages(session_id) ==
    IF session_id \in DOMAIN chat.sessions THEN chat.sessions[session_id].messages ELSE 0

\* ChatDatabase.update_session_phase(session_id, phase, confidence): the
\* sessions after it
update_session_phase(session_id, phase, confidence) ==
    [chat.sessions EXCEPT ![session_id] =
        [@ EXCEPT !.phase = phase, !.phase_confidence = confidence]]

\* a new session arrives, without messages and without a phase
add_session(session_id) ==
    /\ session_id \notin DOMAIN chat.sessions
    /\ chat' = [chat EXCEPT
                  !.sessions = [s \in DOMAIN chat.sessions \cup {session_id} |->
                                  IF s = session_id
                                  THEN [phase |-> NULL, phase_confidence |-> NULL,
                                        messages |-> 0]
                                  ELSE chat.sessions[s]],
                  !.latest = session_id]
    /\ ret' = NoRet
    /\ run_series' = NoSeries
    /\ UNCHANGED <<dbVars, now, tie_order, cleaner, soup, scheduler>>

\* a message is stored for a session, which becomes the latest
add_message(session_id) ==
    /\ session_id \in DOMAIN chat.sessions
    /\ chat' = [chat EXCEPT !.sessions[session_id].messages = 1,
                            !.latest = session_id]
    /\ ret' = NoRet
    /\ run_series' = NoSeries
    /\ UNCHANGED <<dbVars, now, tie_order, cleaner, soup, scheduler>>

(* ------------------------- StandalonePhaseDetector ---------------------- *)
\* detect_and_update_phase(session_id); phase and confidence are what
\* PhaseDetector.predict answers, update_ok what update_session_phase returns.
detect_and_update_phase(session_id, phase, confidence, update_ok) ==
    LET resolved == IF session_id = "latest" THEN get_latest_session ELSE session_id
        Failed(error) == /\ ret' = [op |-> "detect_and_update_phase",
                                    success |-> FALSE, error |-> error]
                         /\ UNCHANGED chat
    IN
    /\ IF session_id = "latest" /\ get_latest_session = ""
       THEN Failed("No active sessions found")
       ELSE IF resolved = ""
       THEN Failed("No session ID provided")
       ELSE IF get_recent_messages(resolved) = 0
       THEN Failed("No messages found for session")
       ELSE IF ~update_ok
       THEN Failed("Failed to update database with detected phase")
       ELSE /\ chat' = [chat EXCEPT
                          !.sessions = update_session_phase(resolved, phase, confidence),
                          !.detected = @ \cup {resolved}]
            /\ ret' = [op |-> "detect_and_update_phase", success |-> TRUE,
                       session_id |-> resolved, phase |-> phase,
                       confidence |-> confidence]
    /\ run_series' = NoSeries
    /\ UNCHANGED <<dbVars, now, tie_order, cleaner, soup, scheduler>>

(* ---------------------------- SmartChatResponse ------------------------- *)
Modes == {"template", "ai", "both"}

\* generate answering from the 'general_inquiry' templates when the session
\* has no phase
SmartChatResponse_generate_default_phase(session_id, mode) ==
    LET resolved == IF session_id = "latest" THEN get_latest_session ELSE session_id
        session_data == get_session_with_phase(resolved)
    IN IF session_id = "latest" /\ get_latest_session = ""
       THEN [success |-> FALSE, error |-> "No active sessions found"]
       ELSE IF resolved = ""
       THEN [success |-> FALSE, error |-> "No session ID provided"]
       ELSE IF session_data = <<>>
       THEN [success |-> FALSE, error |-> "Session not found"]
       ELSE IF mode \notin Modes
       THEN [success |-> FALSE, error |-> "Invalid mode"]
       ELSE IF session_data[1].phase = NULL
       THEN [success |-> TRUE, session_id |-> resolved,
             phase |-> "general_inquiry", confidence |-> "0.0"]
       ELSE [success |-> TRUE, session_id |-> resolved,
             phase |-> session_data[1].phase,
             confidence |-> session_data[1].phase_confidence]

\* SmartChatResponse.generate(session_id, mode, num_options): the dictionary
\* it returns, without the response texts
SmartChatResponse_generate(session_id, mode) ==
    LET resolved == IF session_id = "latest" THEN get_latest_session ELSE session_id
        session_data == get_session_with_phase(resolved)
    IN IF session_id = "latest" /\ get_latest_session = ""
       THEN [success |-> FALSE, error |-> "No active sessions found"]
       ELSE IF resolved = ""
       THEN [success |-> FALSE, error |-> "No session ID provided"]
       ELSE IF session_data = <<>>
       THEN [success |-> FALSE, error |-> "Session not found"]
       ELSE IF session_data[1].phase = NULL
       THEN [success |-> FALSE,
             error |-> "Phase not detected yet. Run standalone phase detector first.",
             session_id |-> resolved]
       ELSE IF mode \notin Modes
       THEN [success |-> FALSE, error |-> "Invalid mode"]
       ELSE [success |-> TRUE, session_id |-> resolved,
             phase |-> session_data[1].phase,
             confidence |-> session_data[1].phase_confidence]

\* generate(session_id, mode) with save_to_temp_file, called on every
\* successful result; save_ok: the file could be written (a failure is only
\* logged).
generate(session_id, mode, save_ok) ==
    LET result == SmartChatResponse_generate(session_id, mode) IN
    /\ ret' = [op |-> "generate", result |-> result]
    /\ chat' = IF result.success /\ save_ok
               THEN [chat EXCEPT !.temp_ai_suggestions =
                        [session_id |-> result.session_id, phase |-> result.phase,
                         confidence |-> result.confidence]]
               ELSE chat
    /\ run_series' = NoSeries
    /\ UNCHANGED <<dbVars, now, tie_order, cleaner, soup, scheduler>>

(* ---------------------------- ScheduledCleaner -------------------------- *)
\* scheduler.config is cleanup_config.json as load_config reads it:
\* [enabled, keep_scrapes, cleanup_frequency_hours, last_cleanup].
\* last_cleanup is [kind, time]: "absent" (null or empty), "unparsable"
\* (datetime.fromisoformat raises), "naive" (an ISO time without UTC offset,
\* what the code itself writes) or "aware" (an ISO time with a UTC offset);
\* cleanup_frequency_hours is [numeric, hours]. The clock is now, in hours.
NoLastCleanup == [kind |-> "absent", time |-> 0]

default_config ==
    [enabled |-> TRUE, keep_scrapes |-> 1,
     cleanup_frequency_hours |-> [numeric |-> TRUE, hours |-> 1],
     last_cleanup |-> NoLastCleanup]

\* should_run_cleanup with "current_time > next_cleanup_time"
should_run_cleanup_after ==
    LET config == scheduler.config
        last_cleanup == config.last_cleanup
        frequency_hours == config.cleanup_frequency_hours
    IN IF ~config.enabled THEN FALSE
       ELSE IF last_cleanup.kind = "absent" THEN TRUE
       ELSE IF last_cleanup.kind = "unparsable" THEN TRUE
       ELSE IF ~frequency_hours.numeric THEN TRUE
       ELSE IF last_cleanup.kind = "aware" THEN TRUE
       ELSE now > last_cleanup.time + frequency_hours.hours

\* ScheduledCleaner.should_run_cleanup(); the except clause returns True for
\* every exception of the try block: fromisoformat on an unparsable
\* last_cleanup, timedelta on a frequency that is not a number, and the
\* comparison of the naive datetime.now() with an aware last_cleanup.
should_run_cleanup ==
    LET config == scheduler.config
        last_cleanup == config.last_cleanup
        frequency_hours == config.cleanup_frequency_hours
    IN IF ~config.enabled THEN FALSE
       ELSE IF last_cleanup.kind = "absent" THEN TRUE
       ELSE IF last_cleanup.kind = "unparsable" THEN TRUE
       ELSE IF ~frequency_hours.numeric THEN TRUE
       ELSE IF last_cleanup.kind = "aware" THEN TRUE
       ELSE now >= last_cleanup.time + frequency_hours.hours

\* run_scheduled_cleanup(force) up to the first write of run_cleanup;
\* db_exists: os.path.exists(cleaner.db_path).
run_scheduled_cleanup(force, db_exists) ==
    /\ scheduler.pc = "idle"
    /\ cleaner.pc \in {"idle", "done"}
    /\ IF ~force /\ ~should_run_cleanup
       THEN /\ ret' = [op |-> "run_scheduled_cleanup", force |-> force,
                       status |-> "skipped", reason |-> "not_scheduled"]
            /\ UNCHANGED <<cleaner, scheduler>>
       ELSE IF ~db_exists
       THEN /\ ret' = [op |-> "run_scheduled_cleanup", force |-> force,
                       status |-> "error", error |-> "Database file not found"]
            /\ cleaner' = IdleCleaner
            /\ UNCHANGED scheduler
       ELSE /\ ret' = [op |-> "run_scheduled_cleanup", force |-> force,
                       status |-> "running"]
            /\ LET keep_scrape_ids == get_scrapes_to_keep(scheduler.config.keep_scrapes) IN
                 cleaner' = [pc |-> IF keep_scrape_ids = {} THEN "done" ELSE "cleanup_jobs",
                             keep_scrapes |-> scheduler.config.keep_scrapes,
                             keep_scrape_ids |-> keep_scrape_ids,
                             result |-> FALSE,
                             at_start |-> scraped_data]
            /\ scheduler' = [scheduler EXCEPT !.pc = "run_cleanup"]
    /\ run_series' = NoSeries
    /\ UNCHANGED <<dbVars, now, tie_order, soup, chat>>

\* run_scheduled_cleanup after run_cleanup returned; save_ok: save_config
\* could write the file (a failure is only logged).
run_scheduled_cleanup_return(save_ok) ==
    /\ scheduler.pc = "run_cleanup"
    /\ cleaner.pc = "done"
    /\ IF cleaner.result
       THEN /\ ret' = [op |-> "run_scheduled_cleanup_return", status |-> "success"]
            /\ scheduler' =
                 [pc |-> "idle",
                  config |-> IF save_ok
                             THEN [scheduler.config EXCEPT
                                      !.last_cleanup = [kind |-> "naive", time |-> now]]
                             ELSE scheduler.config]
       ELSE /\ ret' = [op |-> "run_scheduled_cleanup_return", status |-> "error"]
            /\ scheduler' = [scheduler EXCEPT !.pc = "idle"]
    /\ run_series' = NoSeries
    /\ UNCHANGED <<dbVars, now, tie_order, cleaner, soup, chat>>

\* cleanup_config.json is edited between two runs.
edit_config(config) ==
    /\ scheduler.pc = "idle"
    /\ scheduler' = [scheduler EXCEPT !.config = config]
    /\ ret' = NoRet
    /\ run_series' = NoSeries
    /\ UNCHANGED <<dbVars, now, tie_order, cleaner, soup, chat>>

(* ------------------------------ the database ---------------------------- *)
EmptyDatabase ==
    /\ scraped_data = {}
    /\ jobs = {}
    /\ proposals = {}
    /\ cover_letters = {}
    /\ sqlite_sequence = [scraped_data |-> 0, jobs |-> 0, proposals |-> 0, cover_letters |-> 0]
    /\ now = 0
    /\ cleaner = IdleCleaner
    /\ ret = NoRet
    /\ run_series = NoSeries
    /\ chat = [sessions |-> <<>>, latest |-> "", temp_ai_suggestions |-> NoFile,
               detected |-> {}]
    /\ scheduler = [pc |-> "idle", config |-> default_config]

InitDB ==
    /\ EmptyDatabase
    /\ tie_order \in {"rowid_asc", "rowid_desc"}
    /\ soup = <<>>

PlainJob == [dict |-> TRUE, job_uid |-> NULL, title |-> "T"]

RunCleanup ==
    \/ \E k \in -1 .. MaxKeep : RunCleanupStart(k)
    \/ cleanup_jobs
    \/ cleanup_proposals
    \/ cleanup_scraped_data
    \/ cleanup_orphaned_cover_letters
    \/ RunCleanupFinish
    \/ RunCleanupRaise

\* Rows ever inserted (the AUTOINCREMENT counters) plus the seconds elapsed.
Ops ==
    sqlite_sequence.scraped_data + sqlite_sequence.jobs + sqlite_sequence.proposals
        + sqlite_sequence.cover_letters + now

NextCleanup ==
    \/ Ops < CleanupMaxOps /\ Tick
    \/ Ops < CleanupMaxOps /\ add_scraped_data("browser")
    \/ Ops < CleanupMaxOps /\ \E s \in 1 .. sqlite_sequence.scraped_data + 1 : add_job(s, PlainJob)
    \/ Ops < CleanupMaxOps /\ \E s \in 1 .. sqlite_sequence.scraped_data + 1 : add_proposal(s)
    \/ Ops < CleanupMaxOps /\ \E j \in 1 .. sqlite_sequence.jobs + 1 : add_cover_letter(j)
    \/ \E c \in 1 .. sqlite_sequence.cover_letters : delete_cover_letter(c)
    \/ RunCleanup

SpecCleanup == InitDB /\ [][NextCleanup]_vars

\* The job_data values the import specification draws from: with and without
\* a job_uid, with and without a title, and an entry that is no dict.
JobUids == {NULL, "u1", "u2"}
JobInputs ==
    [dict : {TRUE}, job_uid : JobUids, title : {NULL, "T"}]
        \cup {[dict |-> FALSE, job_uid |-> NULL, title |-> NULL]}
ParsedJobInputs == [dict : {TRUE}, job_uid : JobUids, title : {"T"}]

SeqsUpTo(S, n) == UNION {[1 .. k -> S] : k \in 0 .. n}

\* The rows a script may still insert under the import specification's cap.
ImportRoom == ImportMaxOps - Ops

NextImport ==
    \/ Ops < ImportMaxOps /\ \E ty \in {"browser", "imported"} : add_scraped_data(ty)
    \/ Ops < ImportMaxOps /\
         \E s \in 1 .. sqlite_sequence.scraped_data + 1, d \in JobInputs : add_job(s, d)
    \/ \E l \in SeqsUpTo(ParsedJobInputs, Min(MaxBatch, ImportRoom)) : parse_from_database(l)
    \/ \E e \in BOOLEAN, l \in SeqsUpTo(JobInputs, Min(MaxBatch, ImportRoom)) :
           import_jobs_to_db(e, l)
    \/ Ops < ImportMaxOps /\
         \E ty \in {"browser", "imported"},
            l \in SeqsUpTo(JobInputs, Min(MaxBatch, ImportRoom - 1)) :
           import_from_json_file(ty, l)

SpecImport == InitDB /\ [][NextImport]_vars

NextCover ==
    \/ Ops < CoverMaxOps /\ Tick
    \/ Ops < CoverMaxOps /\ add_job(1, PlainJob)
    \/ Ops < CoverMaxOps /\ \E j \in 1 .. sqlite_sequence.jobs + 1 : add_cover_letter(j)
    \/ \E c \in 1 .. sqlite_sequence.cover_letters : delete_cover_letter(c)
    \/ get_latest_job_without_cover_letter
    \/ Ops < CoverMaxOps /\ run_series.runs < MaxSeries /\
         \E load_ok, generated \in BOOLEAN : smart_generate_cover_letter(load_ok, generated)

SpecCover == InitDB /\ [][NextCover]_vars

(* parser inputs *)
LinkTexts == {<<" ">>, <<" ", "a">>, <<"b", " ">>}
Links ==
    [h2 : {"none", "h2", "h2.job-tile-title"},
     data_test : {"", "job-tile-title-link"},
     data_qa : {"", "job-title"},
     text : LinkTexts]

TitledLink(text) ==
    [h2 |-> "h2", data_test |-> "", data_qa |-> "", text |-> text]

ElementShapes ==
    [tag : {"article"}, data_test : {"JobTile"}, data_qa : {"", "job-tile"}]
    \cup [tag : {"section", "div"}, data_test : {""}, data_qa : {"job-tile"}]
    \cup {[tag |-> "div", data_test |-> "", data_qa |-> ""]}

Element(uid, shape, links) ==
    [uid |-> uid, tag |-> shape.tag, data_test |-> shape.data_test,
     data_qa |-> shape.data_qa, links |-> links]

\* Pages of up to MaxElems elements of every shape, each with no link, a link
\* with a blank text or a link with a title.
TilePages ==
    LET kinds == ElementShapes \X {<<>>, <<TitledLink(<<" ">>)>>, <<TitledLink(<<" ", "a">>)>>}
    IN {[i \in 1 .. Len(p) |-> Element(i, p[i][1], p[i][2])] : p \in SeqsUpTo(kinds, MaxElems)}

\* Pages of one section tile holding up to MaxLinks links of every kind,
\* followed by a div with the same data-qa.
LinkPages ==
    {<<Element(1, [tag |-> "section", data_test |-> "", data_qa |-> "job-tile"], l),
       Element(2, [tag |-> "div", data_test |-> "", data_qa |-> "job-tile"], <<>>)>> :
        l \in SeqsUpTo(Links, MaxLinks)}

Failures == {"none", "open", "read", "parse"}

\* The parser reads no table, so one build stands for both.
InitParser ==
    /\ EmptyDatabase
    /\ tie_order = "rowid_asc"
    /\ soup \in TilePages \cup LinkPages

NextParser ==
    \/ call_parse_upwork_jobs
    \/ \E failure \in Failures : call_parse_html_file(failure)

SpecParser == InitParser /\ [][NextParser]_vars

(* chat inputs *)
Phases == {"rate_negotiation", "follow_up"}
Confidences == {"0.55", "0.9"}
SessionArgs == {"latest", ""} \cup SessionIds

NextChat ==
    \/ Cardinality(DOMAIN chat.sessions) < MaxSessions /\
         \E sid \in SessionIds : add_session(sid)
    \/ \E sid \in SessionIds : add_message(sid)
    \/ \E sid \in SessionArgs, phase \in Phases, confidence \in Confidences,
          update_ok \in BOOLEAN :
           detect_and_update_phase(sid, phase, confidence, update_ok)
    \/ \E sid \in SessionArgs, mode \in Modes \cup {"invalid"}, save_ok \in BOOLEAN :
           generate(sid, mode, save_ok)

SpecChat == InitDB /\ [][NextChat]_vars

(* scheduler inputs *)
LastCleanups ==
    {NoLastCleanup, [kind |-> "unparsable", time |-> 0]}
        \cup [kind : {"naive", "aware"}, time : {0, 1}]

Configs ==
    [enabled : BOOLEAN, keep_scrapes : {1},
     cleanup_frequency_hours :
        {[numeric |-> FALSE, hours |-> 0]} \cup [numeric : {TRUE}, hours : {1, MaxHours}],
     last_cleanup : LastCleanups]

NextSched ==
    \/ scheduler.pc = "idle" /\ Ops < SchedMaxOps /\ Tick
    \/ scheduler.pc = "idle" /\ Ops < SchedMaxOps /\ add_scraped_data("browser")
    \/ scheduler.pc = "idle" /\ Ops < SchedMaxOps /\
         \E s \in 1 .. sqlite_sequence.scraped_data : add_job(s, PlainJob)
    \/ \E config \in Configs : edit_config(config)
    \/ \E force, db_exists \in BOOLEAN : run_scheduled_cleanup(force, db_exists)
    \/ cleanup_jobs
    \/ cleanup_proposals
    \/ cleanup_scraped_data
    \/ cleanup_orphaned_cover_letters
    \/ RunCleanupFinish
    \/ RunCleanupRaise
    \/ \E save_ok \in BOOLEAN : run_scheduled_cleanup_return(save_ok)

SpecSched == InitDB /\ [][NextSched]_vars

(* ------------------------------- claims -------------------------------- *)
CleanupReturnedTrue == cleaner.pc = "done" /\ cleaner.result

ScrapeIds == {r.id : r \in scraped_data}

\* C1 as stated: after run_cleanup returned True, scraped_data holds exactly the
\* keep_scrapes most recent of the scrapes that existed when it started (all of
\* them when fewer existed): at most keep_scrapes rows remain and every remaining
\* scrape is at least as recent as every deleted one.
C1_KeepsMostRecent_AnyKeep ==
    CleanupReturnedTrue =>
        /\ scraped_data \subseteq cleaner.at_start
        /\ Cardinality(scraped_data) =
               Min(cleaner.keep_scrapes, Cardinality(cleaner.at_start))
        /\ \A r \in scraped_data, d \in cleaner.at_start \ scraped_data :
               r.scrape_timestamp >= d.scrape_timestamp

\* C1 amended: the same, for a cleaner constructed with keep_scrapes >= 0 (a
\* negative keep_scrapes is passed to LIMIT, which then keeps every scrape).
C1_KeepsMostRecent ==
    (CleanupReturnedTrue /\ cleaner.keep_scrapes >= 0) =>
        /\ scraped_data \subseteq cleaner.at_start
        /\ Cardinality(scraped_data) =
               Min(cleaner.keep_scrapes, Cardinality(cleaner.at_start))
        /\ \A r \in scraped_data, d \in cleaner.at_start \ scraped_data :
               r.scrape_timestamp >= d.scrape_timestamp

\* A cleanup that returned True after deleting a scrape strictly older than one it kept.
C1_Witness ==
    /\ CleanupReturnedTrue
    /\ cleaner.keep_scrapes >= 1
    /\ Cardinality(scraped_data) = cleaner.keep_scrapes
    /\ \E r \in scraped_data, d \in cleaner.at_start \ scraped_data :
           r.scrape_timestamp > d.scrape_timestamp

C3_CoverLettersReferenceJobs ==
    \A c \in cover_letters : \E j \in jobs : j.id = c.job_id

\* C4: no two jobs rows have the same non-null job_uid, and add_job called with
\* a job_uid that is already stored leaves the jobs table unchanged.
C4_UniqueJobUid ==
    /\ [](\A a, b \in jobs : (a.job_uid # NULL /\ a.job_uid = b.job_uid) => a = b)
    /\ [][(/\ ret'.op = "add_job"
           /\ ret'.job_uid # NULL
           /\ \E j \in jobs : j.job_uid = ret'.job_uid) => jobs' = jobs]_vars

\* add_job has just been called with a job_uid that was already stored.
C4_Witness ==
    /\ ret.op = "add_job"
    /\ ret.job_uid # NULL
    /\ ret.lastrowid = 0
    /\ \E j \in jobs : j.job_uid = ret.job_uid

\* C5 as stated: the number a run reports as added (jobs_added, jobs_imported)
\* equals the number of rows that run inserted into jobs.
C5_ReportedEqualsInserted ==
    [][/\ "jobs_added" \in DOMAIN ret' =>
            ret'.jobs_added = Cardinality(jobs') - Cardinality(jobs)
       /\ "jobs_imported" \in DOMAIN ret' =>
            ret'.jobs_imported = Cardinality(jobs') - Cardinality(jobs)]_vars

\* The title parse_upwork_jobs extracts from an element: the stripped text of
\* its title link, empty when it has no title link.
ExtractedTitle(e) ==
    IF select_title_link(e) = 0
    THEN <<>>
    ELSE get_text_strip(e.links[select_title_link(e)].text)

\* C6: parse_upwork_jobs returns exactly one record per matched job element
\* whose extracted title is non-empty, in document order; elements with no
\* title link or an empty title are omitted.
C6_OneRecordPerTitledElement ==
    ret.op = "parse_upwork_jobs" =>
        LET J == ret.jobs
            titled == {i \in 1 .. Len(ret.job_elements) :
                          ExtractedTitle(ret.job_elements[i]) # <<>>}
        IN /\ Len(J) = Cardinality(titled)
           /\ {J[k].job_uid : k \in 1 .. Len(J)} = {ret.job_elements[i].uid : i \in titled}
           /\ \A k, l \in 1 .. Len(J) : k < l => J[k].job_uid < J[l].job_uid
           /\ \A k \in 1 .. Len(J) :
                 /\ J[k].title # <<>>
                 /\ \E i \in titled :
                       /\ ret.job_elements[i].uid = J[k].job_uid
                       /\ J[k].title = ExtractedTitle(ret.job_elements[i])

\* parse_upwork_jobs returned two records from three matched elements, the
\* omitted one lying between them in the document.
C6_Witness ==
    /\ ret.op = "parse_upwork_jobs"
    /\ Len(ret.job_elements) = 3
    /\ Len(ret.jobs) = 2
    /\ ret.jobs[1].job_uid = 1
    /\ ret.jobs[2].job_uid = 3

JobSelector(k, e) ==
    CASE k = 1 -> JobSel1(e)
      [] k = 2 -> JobSel2(e)
      [] k = 3 -> JobSel3(e)

\* the positions in the document the k-th job selector matches
JobMatches(k) == {i \in 1 .. Len(soup) : JobSelector(k, soup[i])}

\* the positions among the links of e the k-th title selector matches
TitleMatches(k, e) == {n \in 1 .. Len(e.links) : TitleSelector(k, e.links[n])}

\* C7: the job elements are those of the first of the three selectors, in the
\* order of the code, that matches anything, and the title link of an element
\* is the first match of the first of the five title selectors that matches
\* anything; results of different selectors are never merged.
C7_FirstMatchingSelector ==
    ret.op = "parse_upwork_jobs" =>
        /\ LET first == {k \in 1 .. 3 :
                            JobMatches(k) # {} /\ \A j \in 1 .. k - 1 : JobMatches(j) = {}}
               found == {ret.job_elements[i].uid : i \in 1 .. Len(ret.job_elements)}
           IN /\ first = {} => found = {}
              /\ \A k \in first : found = JobMatches(k)
              /\ Cardinality(found) = Len(ret.job_elements)
        /\ \A i \in 1 .. Len(ret.job_elements) :
              LET e == ret.job_elements[i]
                  first == {k \in 1 .. 5 :
                               /\ TitleMatches(k, e) # {}
                               /\ \A j \in 1 .. k - 1 : TitleMatches(j, e) = {}}
              IN /\ first = {} => ret.title_links[i] = 0
                 /\ \A k \in first :
                       /\ ret.title_links[i] \in TitleMatches(k, e)
                       /\ \A n \in TitleMatches(k, e) : ret.title_links[i] <= n

\* The section selector chose the job elements and left out an element the
\* third selector matches; the title link is the second link, chosen by the
\* second title selector, although the first link matches the fourth.
C7_Witness ==
    /\ ret.op = "parse_upwork_jobs"
    /\ JobMatches(1) = {}
    /\ JobMatches(2) # {}
    /\ JobMatches(3) \ JobMatches(2) # {}
    /\ Len(ret.job_elements) = Cardinality(JobMatches(2))
    /\ \E i \in 1 .. Len(ret.job_elements) :
          /\ ret.title_links[i] = 2
          /\ TitleMatches(1, ret.job_elements[i]) = {}
          /\ 2 \in TitleMatches(2, ret.job_elements[i])
          /\ 1 \in TitleMatches(4, ret.job_elements[i])

Uncovered == {j \in jobs : \A c \in cover_letters : c.job_id # j.id}

LatestUncovered(id) ==
    \E J \in Uncovered :
        /\ J.id = id
        /\ \A o \in Uncovered : o.parsed_timestamp <= J.parsed_timestamp

\* C9: get_latest_job_without_cover_letter returns success with job J only if J
\* has no cover letter and no other uncovered job has a later parsed_timestamp;
\* it reports 'No pending jobs found' / None iff every job has a cover letter;
\* the script and SmartCoverLetterGenerator select the same job.
C9_LatestJobWithoutCoverLetter ==
    /\ ret.op = "get_latest_job_without_cover_letter" =>
          /\ ret.success => LatestUncovered(ret.job_id)
          /\ ~ret.success <=> Uncovered = {}
          /\ ~ret.success => ret.message = "No pending jobs found"
          /\ SmartPendingJob = IF ret.success THEN {ret.job_id} ELSE {}
    /\ \A id \in SmartPendingJob : LatestUncovered(id)
    /\ SmartPendingJob = {} <=> Uncovered = {}
    /\ ScriptPendingJob = SmartPendingJob

\* The script returned a job although a later job exists (which is covered) and
\* an earlier uncovered job exists too.
C9_Witness ==
    /\ ret.op = "get_latest_job_without_cover_letter"
    /\ ret.success
    /\ \E j \in jobs \ Uncovered, J \in jobs :
           J.id = ret.job_id /\ j.parsed_timestamp > J.parsed_timestamp
    /\ \E o \in Uncovered, J \in jobs :
           J.id = ret.job_id /\ o.parsed_timestamp < J.parsed_timestamp

\* C10: when every job has at least one cover letter, smart_generate_cover_letter
\* returns True without loading the model and without writing to the database.
C10_NoWorkWhenAllCovered ==
    [][(ret'.op = "smart_generate_cover_letter" /\ Uncovered = {}) =>
          /\ ret'.value = TRUE
          /\ ~ret'.load_called
          /\ UNCHANGED dbVars]_vars

\* smart_generate_cover_letter has just returned True without loading the model,
\* on a database that has jobs, all of them covered.
C10_Witness ==
    /\ ret.op = "smart_generate_cover_letter"
    /\ ret.value
    /\ ~ret.load_called
    /\ jobs # {}
    /\ Uncovered = {}

\* C11: in an unbroken series of successful smart_generate_cover_letter runs
\* on a database that had N uncovered jobs, with no other write in between,
\* every run adds exactly one cover letter, to the latest job that had none,
\* and the number of uncovered jobs falls by one per run; after N runs no job
\* is uncovered and later runs add nothing.
C11_OneCoverLetterPerRun ==
    /\ [](run_series # NoSeries =>
            LET N == run_series.uncovered_at_start
                n == run_series.runs
            IN /\ Cardinality(Uncovered) = IF n < N THEN N - n ELSE 0
               /\ Cardinality(cover_letters) =
                      run_series.cover_letters_at_start + Min(n, N)
               /\ n >= N => Uncovered = {})
    /\ [][(run_series'.runs > 0 /\ Uncovered # {}) =>
            \E J \in Uncovered :
                /\ LatestUncovered(J.id)
                /\ \E c \in cover_letters' :
                      /\ c.job_id = J.id
                      /\ cover_letters' = cover_letters \cup {c}
                      /\ c \notin cover_letters
                /\ Uncovered' = Uncovered \ {J}]_vars
    /\ [][(run_series'.runs > 0 /\ Uncovered = {}) => UNCHANGED dbVars]_vars

\* Three runs in a row on a database that had two uncovered jobs of different
\* age and a covered one: the third run found nothing left to do.
C11_Witness ==
    /\ run_series.uncovered_at_start = 2
    /\ run_series.cover_letters_at_start = 1
    /\ run_series.runs = 3
    /\ \E a, b \in jobs : a.parsed_timestamp < b.parsed_timestamp
    /\ ret.op = "smart_generate_cover_letter"
    /\ ~ret.load_called

PhaseNotDetected == "Phase not detected yet. Run standalone phase detector first."

\* C12: generate never stores a phase; for a session without a stored phase
\* it returns success = False with the 'Phase not detected yet' error and
\* writes no suggestion file; it returns success = True only for a session
\* whose phase detect_and_update_phase stored earlier, with the stored phase
\* and confidence in the result.
C12_GenerateNeverDetects ==
    [][ret'.op = "generate" =>
        LET result == ret'.result IN
        /\ chat'.sessions = chat.sessions
        /\ chat'.detected = chat.detected
        /\ \A sid \in DOMAIN chat.sessions :
              (chat.sessions[sid].phase = NULL /\ "session_id" \in DOMAIN result
                  /\ result.session_id = sid) =>
                 /\ ~result.success
                 /\ result.error = PhaseNotDetected
        /\ ~result.success => chat'.temp_ai_suggestions = chat.temp_ai_suggestions
        /\ result.success =>
              /\ result.session_id \in chat.detected
              /\ result.phase = chat.sessions[result.session_id].phase
              /\ result.confidence = chat.sessions[result.session_id].phase_confidence]_vars

\* generate has just refused the latest session, which has messages but no
\* phase, while another session has a phase and a suggestion file exists.
C12_Witness ==
    /\ ret.op = "generate"
    /\ ~ret.result.success
    /\ ret.result.error = PhaseNotDetected
    /\ chat.sessions[ret.result.session_id].phase = NULL
    /\ chat.sessions[ret.result.session_id].messages = 1
    /\ chat.detected # {}
    /\ chat.temp_ai_suggestions # NoFile

Skipped ==
    [op |-> "run_scheduled_cleanup", force |-> FALSE,
     status |-> "skipped", reason |-> "not_scheduled"]

\* C13 as stated: without force the cleanup runs iff enabled is true and
\* last_cleanup is absent, or cannot be parsed, or now >= last_cleanup +
\* cleanup_frequency_hours; otherwise the call returns skipped and changes
\* neither the database nor the configuration file. (Stated for a numeric
\* cleanup_frequency_hours, where the sum is defined.)
C13_RunsIffScheduled ==
    [][(/\ ret'.op = "run_scheduled_cleanup"
        /\ ~ret'.force
        /\ scheduler.config.cleanup_frequency_hours.numeric) =>
        LET config == scheduler.config
            due == /\ config.enabled
                   /\ \/ config.last_cleanup.kind = "absent"
                      \/ config.last_cleanup.kind = "unparsable"
                      \/ now >= config.last_cleanup.time
                                   + config.cleanup_frequency_hours.hours
        IN /\ ret'.status # "skipped" <=> due
           /\ ~due => ret' = Skipped /\ UNCHANGED <<dbVars, scheduler>>]_vars

\* C13 amended: ... or the schedule check raises, as it does for a
\* last_cleanup that cannot be parsed, a last_cleanup with a UTC offset
\* (which cannot be compared with the naive now) and a
\* cleanup_frequency_hours that is not a number.
C13_RunsIffScheduledOrCheckRaises ==
    [][(ret'.op = "run_scheduled_cleanup" /\ ~ret'.force) =>
        LET config == scheduler.config
            raises == \/ config.last_cleanup.kind = "unparsable"
                      \/ config.last_cleanup.kind = "aware"
                      \/ ~config.cleanup_frequency_hours.numeric
            due == /\ config.enabled
                   /\ \/ config.last_cleanup.kind = "absent"
                      \/ raises
                      \/ now >= config.last_cleanup.time
                                   + config.cleanup_frequency_hours.hours
        IN /\ ret'.status # "skipped" <=> due
           /\ ~due => ret' = Skipped /\ UNCHANGED <<dbVars, scheduler>>]_vars

\* A run was skipped because the last cleanup, recorded by an earlier
\* successful run, is less than cleanup_frequency_hours ago.
C13_Witness ==
    /\ ret = Skipped
    /\ scheduler.config.enabled
    /\ scheduler.config.last_cleanup.kind = "naive"
    /\ scheduler.config.cleanup_frequency_hours.numeric
    /\ scheduler.config.last_cleanup.time > 0
    /\ now < scheduler.config.last_cleanup.time
               + scheduler.config.cleanup_frequency_hours.hours
    /\ scraped_data # {}

====
